---- MODULE Spec2Model ----
(***************************************************************************)
(* Model of run.py: a Flask application with two routes ('/' and           *)
(* '/static/<path:path>'), flask_cors' CORS(app) and the after_request     *)
(* hook add_headers.                                                       *)
(*                                                                         *)
(* A URL path is the sequence of its segments: "/" is << >>,               *)
(* "/static/sub/../main.css" is <<"static", "sub", "..", "main.css">>.     *)
(* A file is named by the sequence of its segments below the document      *)
(* root (the directory of run.py).  Modelled requests have no empty path   *)
(* segment and carry no conditional or range headers.                      *)
(***************************************************************************)
EXTENDS Naturals, Sequences, FiniteSets

VARIABLES files, stage, request, response

vars == <<files, stage, request, response>>

(* ----------------------------- bounds -------------------------------- *)

\* Number of distinct contents a file can have (0 stands for "absent").
MaxVersion == 1

\* The request contexts that can be in flight at once (one per thread of
\* the development server).
Workers == {"w1", "w2"}

(* --------------------------- the filesystem --------------------------- *)

\* The directory send_static serves from, relative to the document root.
StaticDir == <<"static">>

\* The directory index serves from: the document root itself ('.').
RootDir == << >>

\* The fixed file index serves.
EntryFile == <<"index.html">>

\* The file paths the model's filesystem can hold.
FilePaths ==
  { <<"index.html">>,
    <<"secret.txt">>,
    <<"static", "main.css">>,
    <<"static", "sub", "logo.png">> }

\* The absolute path of the document root (the directory that holds
\* run.py): the directory 'terra' of the root directory.
DocRoot == <<"terra">>

\* A directory exists at the absolute path d: the root directory, the
\* document root and the directories on the way to it, and every directory
\* that holds a file below the document root.
isdir(d) ==
  \/ Len(d) <= Len(DocRoot) /\ SubSeq(DocRoot, 1, Len(d)) = d
  \/ \E f \in FilePaths :
       /\ files[f] > 0
       /\ Len(DocRoot \o f) > Len(d)
       /\ SubSeq(DocRoot \o f, 1, Len(d)) = d

\* A walk that crossed a name that is no directory.
Nowhere == <<"<nowhere>">>

\* The operating system's walk of path p from the absolute location cur:
\* every location a segment is read from must be a directory, '.' stays,
\* '..' goes to the parent and stays in the root directory, a name goes to
\* that entry.
RECURSIVE Walk(_, _)
Walk(cur, p) ==
  IF p = << >> THEN cur
  ELSE IF cur = Nowhere \/ ~isdir(cur) THEN Nowhere
  ELSE IF Head(p) = "." THEN Walk(cur, Tail(p))
  ELSE IF Head(p) = ".."
       THEN IF cur = << >> THEN Walk(<< >>, Tail(p))
            ELSE Walk(SubSeq(cur, 1, Len(cur) - 1), Tail(p))
       ELSE Walk(Append(cur, Head(p)), Tail(p))

\* The absolute location a path relative to the document root resolves to
\* (a relative path is joined to the application's root path).
Resolve(p) == Walk(DocRoot, p)

\* The absolute location at is the file f of the document root.
IsFileAt(at, f) == at = DocRoot \o f /\ files[f] > 0

\* The file of the document root at the absolute location of a file.
FileAt(at) == CHOOSE f \in FilePaths : at = DocRoot \o f

\* os.path.isfile: p resolves to a regular file (a directory is not one).
isfile(p) == \E f \in FilePaths : IsFileAt(Resolve(p), f)

(* ------------------------------ requests ------------------------------ *)

\* The request methods modelled.
Methods == {"GET", "OPTIONS", "POST"}

NoOrigin == "<none>"

Origins == {NoOrigin, "https://example.org"}

RequestPaths ==
  { << >>,
    <<"index.html">>,
    <<"static">>,
    <<"static", "main.css">>,
    <<"static", "sub", "logo.png">>,
    <<"static", "does-not-exist.xyz">>,
    <<"static", "sub">>,
    <<"static", "..", "secret.txt">>,
    <<"static", "sub", "..", "..", "..", "terra", "secret.txt">>,
    <<"static", "sub", "..", "main.css">> }

Requests == [method : Methods, path : RequestPaths, origin : Origins]

NoRequest == [method |-> "<none>", path |-> << >>, origin |-> NoOrigin]

(* ----------------------------- responses ------------------------------ *)

Absent == "<absent>"

COOP == "Cross-Origin-Opener-Policy"

COEP == "Cross-Origin-Embedder-Policy"

ACAO == "Access-Control-Allow-Origin"

ContentType == "Content-Type"

HeaderNames == {ContentType, COOP, COEP, ACAO}

NoHeaders == [h \in HeaderNames |-> Absent]

EmptyBody == [kind |-> "empty", file |-> << >>, version |-> 0]

\* The bytes of the file at path p: distinct files have distinct bytes.
FileBody(p) == [kind |-> "file", file |-> p, version |-> files[p]]

\* The HTML page werkzeug renders for an HTTPException.
ErrorPage == [kind |-> "error page", file |-> << >>, version |-> 0]

NoResponse == [status |-> 0, headers |-> NoHeaders, allow |-> {}, body |-> EmptyBody]

(* ---------------------- the file-serving primitive -------------------- *)

\* One step of posixpath.normpath over the segments already normalised.
NormStep(acc, seg) ==
  IF seg = "." THEN acc
  ELSE IF seg = ".." /\ Len(acc) > 0 /\ acc[Len(acc)] # ".."
       THEN SubSeq(acc, 1, Len(acc) - 1)
       ELSE Append(acc, seg)

RECURSIVE NormFrom(_, _)
NormFrom(acc, p) ==
  IF p = << >> THEN acc ELSE NormFrom(NormStep(acc, Head(p)), Tail(p))

\* posixpath.normpath of a relative path: '.' segments dropped, 'x/..'
\* collapsed lexically, leading '..' kept.
normpath(p) == NormFrom(<< >>, p)

\* safe_join returned None: the joined path would leave the directory.
Unsafe == <<"<unsafe>">>

\* safe_join without the refusal of a leading '..'.
safe_join_unchecked(directory, path) == directory \o normpath(path)

\* werkzeug's safe_join(directory, path): normalise the untrusted path and
\* refuse it when it is '..' or starts with '../'.
safe_join(directory, path) ==
  LET n == normpath(path)
  IN IF Len(n) > 0 /\ n[1] = ".." THEN Unsafe ELSE directory \o n

\* os.path.splitext of a name, for the names of the model: the extension
\* from the last dot on, empty for a name without a dot.
Ext(name) ==
  CASE name = "index.html" -> ".html"
    [] name = "main.css" -> ".css"
    [] name = "logo.png" -> ".png"
    [] name = "secret.txt" -> ".txt"
    [] name = "does-not-exist.xyz" -> ".xyz"
    [] name \in {"static", "sub", "terra"} -> ""

\* guess_type that knows no type at all.
guess_type_unknown(ext) == "application/octet-stream"

\* mimetypes.guess_type with send_file's fallback, for the extensions a
\* servable file of the model has and for no extension.  The type of any
\* other extension depends on the host's mime.types and is left undefined.
guess_type(ext) ==
  CASE ext = ".html" -> "text/html"
    [] ext = ".css" -> "text/css"
    [] ext = ".png" -> "image/png"
    [] ext = ".txt" -> "text/plain"
    [] ext = "" -> "application/octet-stream"

NotFound == [status |-> 404,
             headers |-> [NoHeaders EXCEPT ![ContentType] = "text/html"],
             allow |-> {},
             body |-> ErrorPage]

\* send_from_directory answering a missing file with an empty 200.
send_from_directory_lenient(directory, path) ==
  LET full == safe_join(directory, path)
  IN IF full = Unsafe THEN NotFound
     ELSE IF ~isfile(full)
     THEN [status |-> 200,
           headers |-> [NoHeaders EXCEPT ![ContentType] = "application/octet-stream"],
           allow |-> {},
           body |-> EmptyBody]
     ELSE [status |-> 200,
           headers |-> [NoHeaders EXCEPT
                          ![ContentType] = guess_type(Ext(full[Len(full)]))],
           allow |-> {},
           body |-> FileBody(FileAt(Resolve(full)))]

\* send_from_directory(directory, path): NotFound when the path escapes
\* the directory or names no regular file, else the file with status 200.
send_from_directory(directory, path) ==
  LET full == safe_join(directory, path)
  IN IF full = Unsafe \/ ~isfile(full)
     THEN NotFound
     ELSE [status |-> 200,
           headers |-> [NoHeaders EXCEPT
                          ![ContentType] = guess_type(Ext(full[Len(full)]))],
           allow |-> {},
           body |-> FileBody(FileAt(Resolve(full)))]

(* ------------------------------ the views ----------------------------- *)

\* index serving another file of the document root.
index_other_file == send_from_directory(RootDir, <<"secret.txt">>)

\* index(): the fixed entry file of the document root.
index == send_from_directory(RootDir, EntryFile)

\* send_static(path): the file at path below the static directory.  Flask's
\* own rule for its static folder has the same URL pattern and serves the
\* same directory, so either view gives this response.
send_static(path) == send_from_directory(StaticDir, path)

(* ------------------------------- routing ------------------------------ *)

\* Routes that accept every method.
RuleMethods_any == {"GET", "HEAD", "OPTIONS", "POST"}

\* The methods Flask registers for a route declared without methods=:
\* GET, plus the automatic HEAD and OPTIONS.
RuleMethods == {"GET", "HEAD", "OPTIONS"}

\* A URL map with a catch-all rule on index.
MatchRule_catch_all(path) ==
  IF Len(path) >= 2 /\ path[1] = "static" THEN "send_static" ELSE "index"

\* The rule of the URL map a path matches: '/' is index,
\* '/static/<path:path>' (a non-empty rest) is send_static.
MatchRule(path) ==
  IF path = << >> THEN "index"
  ELSE IF Len(path) >= 2 /\ path[1] = "static" THEN "send_static"
  ELSE "none"

\* The value of the <path:path> converter for a matched static URL.
PathArg(path) == Tail(path)

\* 405 Method Not Allowed: the path matches a rule that lacks the method.
MethodNotAllowedResponse ==
  [status |-> 405,
   headers |-> [NoHeaders EXCEPT ![ContentType] = "text/html"],
   allow |-> RuleMethods,
   body |-> ErrorPage]

\* Flask's automatic OPTIONS response: the view is not called.
make_default_options_response ==
  [status |-> 200,
   headers |-> [NoHeaders EXCEPT ![ContentType] = "text/html"],
   allow |-> RuleMethods,
   body |-> EmptyBody]

\* Automatic OPTIONS switched off: the view answers OPTIONS as well.
provide_automatic_options_off(req) == FALSE

\* Whether a request on a matched rule is answered without calling the view.
provide_automatic_options(req) == req.method = "OPTIONS"

\* Flask's dispatch of one request: routing, then the view.
full_dispatch_request(req) ==
  IF MatchRule(req.path) = "none" THEN NotFound
  ELSE IF req.method \notin RuleMethods THEN MethodNotAllowedResponse
  ELSE IF provide_automatic_options(req) THEN make_default_options_response
  ELSE IF MatchRule(req.path) = "index" THEN index
  ELSE send_static(PathArg(req.path))

(* ------------------------- after-request steps ------------------------ *)

\* add_headers applied to successful responses only.
add_headers_ok_only(resp) ==
  IF resp.status # 200 THEN resp
  ELSE [resp EXCEPT !.headers = [@ EXCEPT ![COOP] = "same-origin",
                                          ![COEP] = "require-corp"]]

\* add_headers(response): both isolation headers assigned unconditionally.
add_headers(resp) ==
  [resp EXCEPT !.headers = [@ EXCEPT ![COOP] = "same-origin",
                                     ![COEP] = "require-corp"]]

\* The origin flask_cors allows under CORS(app)'s defaults (origins '*',
\* send_wildcard False, always_send True): the request's own Origin when it
\* sent one, else the wildcard.
get_cors_origin(req) == IF req.origin # NoOrigin THEN req.origin ELSE "*"

\* A CORS step that rebuilds the header set instead of adding to it.
set_cors_headers_replacing(resp, req) ==
  [resp EXCEPT !.headers = [NoHeaders EXCEPT ![ACAO] = get_cors_origin(req)]]

\* flask_cors' after-request step: adds Access-Control-Allow-Origin unless
\* the response already has one; other headers are kept.
set_cors_headers(resp, req) ==
  IF resp.headers[ACAO] # Absent THEN resp
  ELSE [resp EXCEPT !.headers = [@ EXCEPT ![ACAO] = get_cors_origin(req)]]

(* ------------------------------- actions ------------------------------ *)

TypeOK ==
  /\ files \in [FilePaths -> 0..MaxVersion]
  /\ stage \in [Workers -> {"idle", "request", "response", "augmented", "finalized"}]
  /\ request \in [Workers -> Requests \cup {NoRequest}]

Init ==
  /\ files \in [FilePaths -> 0..MaxVersion]
  /\ stage = [w \in Workers |-> "idle"]
  /\ request = [w \in Workers |-> NoRequest]
  /\ response = [w \in Workers |-> NoResponse]

\* The server hands a parsed request to a free worker.
Receive(w) ==
  /\ stage[w] = "idle"
  /\ \E req \in Requests : request' = [request EXCEPT ![w] = req]
  /\ stage' = [stage EXCEPT ![w] = "request"]
  /\ UNCHANGED <<files, response>>

Respond(w, resp) ==
  /\ response' = [response EXCEPT ![w] = resp]
  /\ stage' = [stage EXCEPT ![w] = "response"]
  /\ UNCHANGED <<files, request>>

\* No rule matches the path: werkzeug raises NotFound.
RouteNotFound(w) ==
  /\ stage[w] = "request"
  /\ MatchRule(request[w].path) = "none"
  /\ Respond(w, NotFound)

\* A rule matches the path but not the method.
RouteMethodNotAllowed(w) ==
  /\ stage[w] = "request"
  /\ MatchRule(request[w].path) # "none"
  /\ request[w].method \notin RuleMethods
  /\ Respond(w, MethodNotAllowedResponse)

\* OPTIONS on a matched rule: answered by Flask, the view is not called.
AutomaticOptions(w) ==
  /\ stage[w] = "request"
  /\ MatchRule(request[w].path) # "none"
  /\ request[w].method \in RuleMethods
  /\ provide_automatic_options(request[w])
  /\ Respond(w, make_default_options_response)

\* GET on '/': the view index runs.
DispatchIndex(w) ==
  /\ stage[w] = "request"
  /\ MatchRule(request[w].path) = "index"
  /\ request[w].method \in RuleMethods
  /\ ~provide_automatic_options(request[w])
  /\ Respond(w, index)

\* GET on '/static/<path>': the view send_static runs.
DispatchSendStatic(w) ==
  /\ stage[w] = "request"
  /\ MatchRule(request[w].path) = "send_static"
  /\ request[w].method \in RuleMethods
  /\ ~provide_automatic_options(request[w])
  /\ Respond(w, send_static(PathArg(request[w].path)))

\* add_headers run on one response object shared by all workers.
AfterRequestAddHeaders_shared(w) ==
  /\ stage[w] = "response"
  /\ response' = [v \in Workers |-> add_headers(response[w])]
  /\ stage' = [stage EXCEPT ![w] = "augmented"]
  /\ UNCHANGED <<files, request>>

\* The after_request hook add_headers runs on the worker's response.
AfterRequestAddHeaders(w) ==
  /\ stage[w] = "response"
  /\ response' = [response EXCEPT ![w] = add_headers(response[w])]
  /\ stage' = [stage EXCEPT ![w] = "augmented"]
  /\ UNCHANGED <<files, request>>

\* flask_cors' after_request hook runs after add_headers (hooks run in
\* reverse order of registration).
AfterRequestCors(w) ==
  /\ stage[w] = "augmented"
  /\ response' = [response EXCEPT ![w] = set_cors_headers(response[w], request[w])]
  /\ stage' = [stage EXCEPT ![w] = "finalized"]
  /\ UNCHANGED <<files, request>>

\* The finalized response is written to the client; the worker is free.
Send(w) ==
  /\ stage[w] = "finalized"
  /\ stage' = [stage EXCEPT ![w] = "idle"]
  /\ request' = [request EXCEPT ![w] = NoRequest]
  /\ response' = [response EXCEPT ![w] = NoResponse]
  /\ UNCHANGED files

Next ==
  \E w \in Workers :
    \/ Receive(w)
    \/ RouteNotFound(w)
    \/ RouteMethodNotAllowed(w)
    \/ AutomaticOptions(w)
    \/ DispatchIndex(w)
    \/ DispatchSendStatic(w)
    \/ AfterRequestAddHeaders(w)
    \/ AfterRequestCors(w)
    \/ Send(w)

Spec == Init /\ [][Next]_vars

(* ======================= properties of the server ===================== *)

\* The response of worker w is complete: both after-request steps ran.
Finalized(w) == stage[w] = "finalized"

\* Worker w holds a GET for '/static/<p>' with a non-empty p.
StaticGet(w) ==
  /\ request[w].method = "GET"
  /\ Len(request[w].path) >= 2
  /\ request[w].path[1] = "static"

\* The p of worker w's '/static/<p>' request.
AssetPath(w) == SubSeq(request[w].path, 2, Len(request[w].path))

\* p has a parent-directory segment.
HasDotDot(p) == \E i \in 1..Len(p) : p[i] = ".."

\* p is made of plain names only.
Plain(p) == \A i \in 1..Len(p) : p[i] \notin {".", ".."}

\* Read from depth d below a directory, p climbs above that directory.
RECURSIVE EscapesFrom(_, _)
EscapesFrom(d, p) ==
  IF p = << >> THEN FALSE
  ELSE IF Head(p) = ".." THEN d = 0 \/ EscapesFrom(d - 1, Tail(p))
  ELSE IF Head(p) = "." THEN EscapesFrom(d, Tail(p))
  ELSE EscapesFrom(d + 1, Tail(p))

Escapes(p) == EscapesFrom(0, p)

\* A file with content exists at the (plain) path f.
Exists(f) == f \in FilePaths /\ files[f] > 0

\* The response body is a file kept outside the static directory.
LeaksOutside(resp) == resp.body.kind = "file" /\ resp.body.file[1] # "static"

\* C1: every finalized response, whatever the method, path and status,
\* carries Cross-Origin-Opener-Policy: same-origin and
\* Cross-Origin-Embedder-Policy: require-corp.
C1_IsolationHeaders ==
  \A w \in Workers :
    Finalized(w) =>
      /\ response[w].headers[COOP] = "same-origin"
      /\ response[w].headers[COEP] = "require-corp"

\* A finalized 404 for an unmatched path carries both headers.
C1_Witness ==
  \E w \in Workers :
    /\ Finalized(w)
    /\ request[w].path = <<"index.html">>
    /\ response[w].status = 404
    /\ response[w].headers[COOP] = "same-origin"
    /\ response[w].headers[COEP] = "require-corp"

\* C2 as stated: every GET /static/p whose p has a '..' segment is answered
\* 404 and never with a file from outside the static directory.
C2_Original ==
  \A w \in Workers :
    (Finalized(w) /\ StaticGet(w) /\ HasDotDot(AssetPath(w))) =>
      /\ response[w].status = 404
      /\ ~LeaksOutside(response[w])

\* C2 amended: a GET /static/p whose p climbs out of the static directory is
\* answered 404; a p whose '..' segments stay inside is answered as the
\* collapsed path (200 with that file when it exists, else 404); no
\* GET /static/p is answered with a file from outside the static directory.
C2_Traversal ==
  \A w \in Workers :
    (Finalized(w) /\ StaticGet(w)) =>
      /\ Escapes(AssetPath(w)) => response[w].status = 404
      /\ ~LeaksOutside(response[w])
      /\ (HasDotDot(AssetPath(w)) /\ ~Escapes(AssetPath(w))) =>
           IF Exists(StaticDir \o normpath(AssetPath(w)))
           THEN /\ response[w].status = 200
                /\ response[w].body = FileBody(StaticDir \o normpath(AssetPath(w)))
           ELSE response[w].status = 404

\* GET /static/../secret.txt is answered 404 while secret.txt and the
\* static directory exist.
C2_Witness ==
  \E w \in Workers :
    /\ Finalized(w)
    /\ request[w].method = "GET"
    /\ request[w].path = <<"static", "..", "secret.txt">>
    /\ Exists(<<"secret.txt">>)
    /\ Exists(<<"static", "main.css">>)
    /\ response[w].status = 404

\* The content type the extension of a served asset calls for.
TypeOfAsset(name) ==
  CASE name = "main.css" -> "text/css"
    [] name = "logo.png" -> "image/png"
    [] OTHER -> "application/octet-stream"

\* C3: for a relative path p (subdirectories allowed) that names an existing
\* file of the static directory, GET /static/p is answered 200 with that
\* file's bytes and the content type of its extension.
C3_ServesAsset ==
  \A w \in Workers :
    (/\ Finalized(w)
     /\ StaticGet(w)
     /\ Plain(AssetPath(w))
     /\ Exists(<<"static">> \o AssetPath(w))) =>
      /\ response[w].status = 200
      /\ response[w].body = [kind |-> "file",
                             file |-> <<"static">> \o AssetPath(w),
                             version |-> files[<<"static">> \o AssetPath(w)]]
      /\ response[w].headers[ContentType] =
           TypeOfAsset(AssetPath(w)[Len(AssetPath(w))])

\* GET /static/sub/logo.png is answered 200 as image/png.
C3_Witness ==
  \E w \in Workers :
    /\ Finalized(w)
    /\ request[w].method = "GET"
    /\ request[w].path = <<"static", "sub", "logo.png">>
    /\ response[w].status = 200
    /\ response[w].headers[ContentType] = "image/png"

\* C4: when index.html exists in the document root, GET / is answered 200
\* with its bytes, whatever else the document root holds, and GET / never
\* serves another file.
C4_ServesEntry ==
  \A w \in Workers :
    (Finalized(w) /\ request[w].method = "GET" /\ request[w].path = << >>) =>
      /\ Exists(<<"index.html">>) =>
           /\ response[w].status = 200
           /\ response[w].body = [kind |-> "file",
                                  file |-> <<"index.html">>,
                                  version |-> files[<<"index.html">>]]
      /\ response[w].body.kind = "file" =>
           response[w].body.file = <<"index.html">>

\* GET / is answered 200 with index.html while secret.txt exists as well.
C4_Witness ==
  \E w \in Workers :
    /\ Finalized(w)
    /\ request[w].method = "GET"
    /\ request[w].path = << >>
    /\ Exists(<<"secret.txt">>)
    /\ response[w].status = 200
    /\ response[w].body.file = <<"index.html">>

\* C5 as stated: GET /static/p is answered 404 whenever no file exists at
\* staticDir/p, and GET / is answered 404 whenever index.html is absent.
C5_Original ==
  \A w \in Workers :
    (Finalized(w) /\ request[w].method = "GET") =>
      /\ (StaticGet(w) /\ ~isfile(<<"static">> \o AssetPath(w))) =>
           response[w].status = 404
      /\ (request[w].path = << >> /\ ~isfile(<<"index.html">>)) =>
           response[w].status = 404

\* C5 amended: GET /static/p is answered 404 whenever no file exists at
\* staticDir/p once the '.' and '..' segments of p are collapsed lexically
\* (for a p of plain names: whenever no file exists at staticDir/p; for a p
\* that climbs out of the static directory: always), and GET / is answered
\* 404 whenever index.html is absent.
C5_MissingFile ==
  \A w \in Workers :
    (Finalized(w) /\ request[w].method = "GET") =>
      /\ (/\ StaticGet(w)
          /\ Plain(AssetPath(w))
          /\ ~Exists(<<"static">> \o AssetPath(w))) =>
           response[w].status = 404
      /\ (/\ StaticGet(w)
          /\ \/ Escapes(AssetPath(w))
             \/ ~Exists(<<"static">> \o normpath(AssetPath(w)))) =>
           response[w].status = 404
      /\ (request[w].path = << >> /\ ~Exists(<<"index.html">>)) =>
           response[w].status = 404

\* GET /static/does-not-exist.xyz is answered 404, and so is
\* GET /static/sub/../main.css while static/main.css and index.html are
\* absent.
C5_Witness ==
  \E w, v \in Workers :
    /\ Finalized(w)
    /\ request[w].method = "GET"
    /\ request[w].path = <<"static", "does-not-exist.xyz">>
    /\ response[w].status = 404
    /\ Finalized(v)
    /\ request[v].method = "GET"
    /\ request[v].path = <<"static", "sub", "..", "main.css">>
    /\ ~Exists(<<"static", "main.css">>)
    /\ ~Exists(<<"index.html">>)
    /\ response[v].status = 404

\* GET / is answered 404 while index.html is absent and other files exist.
C5_EntryAbsent ==
  \E w \in Workers :
    /\ Finalized(w)
    /\ request[w].method = "GET"
    /\ request[w].path = << >>
    /\ ~Exists(<<"index.html">>)
    /\ Exists(<<"secret.txt">>)
    /\ response[w].status = 404

\* The path is '/static/<p>' with a non-empty p.
IsStaticPath(path) == Len(path) >= 2 /\ path[1] = "static"

\* C6: an OPTIONS request to /static/p is answered with a non-404 response
\* that carries Access-Control-Allow-Origin, for every p, whether or not the
\* file exists; no file is looked up or served.
C6_Preflight ==
  \A w \in Workers :
    (/\ Finalized(w)
     /\ request[w].method = "OPTIONS"
     /\ IsStaticPath(request[w].path)) =>
      /\ response[w].status = 200
      /\ response[w].headers[ACAO] # Absent
      /\ response[w].body.kind = "empty"

\* OPTIONS /static/does-not-exist.xyz with an Origin is answered 200 with
\* Access-Control-Allow-Origin.
C6_Witness ==
  \E w \in Workers :
    /\ Finalized(w)
    /\ request[w].method = "OPTIONS"
    /\ request[w].path = <<"static", "does-not-exist.xyz">>
    /\ request[w].origin # NoOrigin
    /\ response[w].status = 200
    /\ response[w].headers[ACAO] # Absent

\* C7: a request to a path other than '/' and '/static/<p>' is answered 404
\* and never with file content, also when the path names a file of the
\* document root.
C7_OnlyTwoRoutes ==
  \A w \in Workers :
    (/\ Finalized(w)
     /\ request[w].path # << >>
     /\ ~IsStaticPath(request[w].path)) =>
      /\ response[w].status = 404
      /\ response[w].body.kind # "file"

\* GET /index.html is answered 404 while index.html exists.
C7_Witness ==
  \E w \in Workers :
    /\ Finalized(w)
    /\ request[w].method = "GET"
    /\ request[w].path = <<"index.html">>
    /\ Exists(<<"index.html">>)
    /\ response[w].status = 404

\* C8 as stated: every finalized response carries
\* Access-Control-Allow-Origin: * together with both isolation headers.
C8_Original ==
  \A w \in Workers :
    Finalized(w) =>
      /\ response[w].headers[ACAO] = "*"
      /\ response[w].headers[COOP] = "same-origin"
      /\ response[w].headers[COEP] = "require-corp"

\* C8 amended: every finalized response carries Access-Control-Allow-Origin
\* together with both isolation headers; its value is '*' for a request
\* without an Origin header and the request's own Origin otherwise.
C8_CorsWithIsolation ==
  \A w \in Workers :
    Finalized(w) =>
      /\ response[w].headers[ACAO] # Absent
      /\ response[w].headers[ACAO] =
           (IF request[w].origin = NoOrigin THEN "*" ELSE request[w].origin)
      /\ response[w].headers[COOP] = "same-origin"
      /\ response[w].headers[COEP] = "require-corp"

\* A 404 for a request with an Origin carries that origin and both
\* isolation headers, and another without Origin carries '*'.
C8_Witness ==
  \E w, v \in Workers :
    /\ Finalized(w)
    /\ request[w].origin = "https://example.org"
    /\ response[w].status = 404
    /\ response[w].headers[ACAO] = "https://example.org"
    /\ response[w].headers[COOP] = "same-origin"
    /\ Finalized(v)
    /\ request[v].origin = NoOrigin
    /\ response[v].headers[ACAO] = "*"
    /\ response[v].headers[COEP] = "require-corp"

\* C9 as stated: a finalized response is a served file, a pre-flight answer
\* or a 404.
C9_Original ==
  \A w \in Workers :
    Finalized(w) =>
      \/ response[w].status = 200 /\ response[w].body.kind = "file"
      \/ response[w].status = 200 /\ request[w].method = "OPTIONS"
      \/ response[w].status = 404

\* C9 amended: a finalized response is a served file, a pre-flight answer,
\* a 404 or a 405; it is a 405 exactly when the path is '/' or '/static/<p>'
\* and the method is none of GET, HEAD and OPTIONS, and 404 is the only
\* error a GET receives.
C9_ErrorKinds ==
  \A w \in Workers :
    Finalized(w) =>
      /\ \/ response[w].status = 200 /\ response[w].body.kind = "file"
         \/ response[w].status = 200 /\ request[w].method = "OPTIONS"
         \/ response[w].status = 404
         \/ response[w].status = 405
      /\ response[w].status = 405 <=>
           /\ request[w].path = << >> \/ IsStaticPath(request[w].path)
           /\ request[w].method \notin {"GET", "HEAD", "OPTIONS"}
      /\ request[w].method = "GET" => response[w].status \in {200, 404}

\* POST / and POST /static/main.css are both answered 405.
C9_Witness ==
  \E w, v \in Workers :
    /\ Finalized(w)
    /\ request[w].method = "POST"
    /\ request[w].path = << >>
    /\ response[w].status = 405
    /\ Finalized(v)
    /\ request[v].method = "POST"
    /\ request[v].path = <<"static", "main.css">>
    /\ response[v].status = 405

\* What a worker's response must be at its stage, from its own request and
\* the filesystem alone.
ResponseAt(st, req) ==
  CASE st = "response" -> full_dispatch_request(req)
    [] st = "augmented" -> add_headers(full_dispatch_request(req))
    [] st = "finalized" ->
         set_cors_headers(add_headers(full_dispatch_request(req)), req)
    [] OTHER -> NoResponse

\* Every worker's response is the one its own request calls for.
Independent ==
  \A w \in Workers :
    /\ response[w] = ResponseAt(stage[w], request[w])
    /\ stage[w] = "idle" => request[w] = NoRequest

\* A step changes the request context of at most one worker.
OneWorkerPerStep ==
  \A w, v \in Workers :
    (w # v /\ <<stage[w], request[w], response[w]>>' # <<stage[w], request[w], response[w]>>)
      => <<stage[v], request[v], response[v]>>' = <<stage[v], request[v], response[v]>>

\* C10: under every interleaving of requests, each worker's response is a
\* function of its own request and the filesystem; no step changes the
\* filesystem, and no step touches another worker's request context.
C10_Stateless ==
  /\ []Independent
  /\ [][files' = files /\ OneWorkerPerStep]_vars

\* Two different requests are in flight together, one of them finalized.
C10_Witness ==
  \E w, v \in Workers :
    /\ w # v
    /\ Finalized(w)
    /\ request[w].method = "GET"
    /\ request[w].path = << >>
    /\ response[w].status = 200
    /\ stage[v] = "response"
    /\ request[v].method = "POST"
    /\ response[v].status = 405

====
